---- MODULE Spec2Model ----
(***************************************************************************)
(* A model of deep.py: the walk over the given paths, the two import       *)
(* extractors, and the writing of the pinned requirements file.            *)
(*                                                                         *)
(* A string is a sequence of one-character strings, so that endswith,      *)
(* startswith, split('.'), lower() and the ordering used by sorted() are   *)
(* computed and not assumed.                                               *)
(***************************************************************************)
EXTENDS Integers, Sequences, FiniteSets, TLC

(***************************************************************************)
(* Strings                                                                 *)
(***************************************************************************)

\* The characters the model uses, in code point order (what sorted() compares).
CodePoints ==
    << "*", ".", "/", "1", "2", "=", "A", "B", "a", "b", "c", "d", "e", "g", "h",
       "i", "k", "m", "n", "p", "r", "t", "u", "x", "y", "z" >>

Ord(c) == CHOOSE k \in 1..Len(CodePoints) : CodePoints[k] = c

\* str.lower() on one character
LowerChar(c) == IF c = "A" THEN "a" ELSE IF c = "B" THEN "b" ELSE c

\* str.lower()
Lower(s) == [k \in 1..Len(s) |-> LowerChar(s[k])]

\* str.startswith(p)
StartsWith(s, p) == Len(p) <= Len(s) /\ SubSeq(s, 1, Len(p)) = p

\* str.endswith(p)
EndsWith(s, p) == Len(p) <= Len(s) /\ SubSeq(s, Len(s) - Len(p) + 1, Len(s)) = p

\* s < t in Python: lexicographic by code point, a proper prefix is smaller
StrLess(s, t) ==
    \E k \in 1..(Len(s) + 1) :
        /\ k - 1 <= Len(t)
        /\ \A j \in 1..(k - 1) : s[j] = t[j]
        /\ \/ k = Len(s) + 1 /\ Len(t) >= k
           \/ k <= Len(s) /\ k <= Len(t) /\ Ord(s[k]) < Ord(t[k])

\* s.split('.')[0]: the text before the first dot (the whole of s when it has none)
FirstSegment(s) ==
    LET dots == {k \in 1..Len(s) : s[k] = "."}
    IN  IF dots = {} THEN s
        ELSE SubSeq(s, 1, (CHOOSE k \in dots : \A j \in dots : k <= j) - 1)

\* sorted(set of str)
RECURSIVE Sorted(_)
Sorted(S) ==
    IF S = {} THEN << >>
    ELSE LET m == CHOOSE x \in S : \A y \in S \ {x} : StrLess(x, y)
         IN  << m >> \o Sorted(S \ {m})

\* The concatenation of a sequence of sequences ("".join)
RECURSIVE Flatten(_)
Flatten(ss) == IF ss = << >> THEN << >> ELSE Head(ss) \o Flatten(Tail(ss))

(***************************************************************************)
(* The file system: a function from the paths that exist to their kind.    *)
(*   "file"  a regular file                                                *)
(*   "dir"   a directory that can be listed                                *)
(*   "xdir"  a directory whose listing fails (no read permission)          *)
(*   "ldir"  a symbolic link to a directory                                *)
(***************************************************************************)

DirKinds == {"dir", "xdir", "ldir"}

\* os.path.join(dirpath, name)
Join(dirpath, name) == dirpath \o << "/" >> \o name

Slashes(p) == {k \in 1..Len(p) : p[k] = "/"}

LastSlash(p) == CHOOSE k \in Slashes(p) : \A j \in Slashes(p) : j <= k

\* os.path.dirname and os.path.basename of a path with a slash in it
Dirname(p) == SubSeq(p, 1, LastSlash(p) - 1)

Basename(p) == IF Slashes(p) = {} THEN p ELSE SubSeq(p, LastSlash(p) + 1, Len(p))

\* os.path.isdir (follows links) and os.path.isfile
IsDir(t, p) == p \in DOMAIN t /\ t[p] \in DirKinds

IsFile(t, p) == p \in DOMAIN t /\ t[p] = "file"

\* The names os.scandir(d) lists, split as os.walk splits them
Entries(t, d) == {p \in DOMAIN t : Slashes(p) # {} /\ Dirname(p) = d}

DirNames(t, d) == {Basename(p) : p \in {q \in Entries(t, d) : t[q] \in DirKinds}}

FileNames(t, d) == {Basename(p) : p \in {q \in Entries(t, d) : t[q] = "file"}}

\* file.endswith((".py", ".ipynb"))
PyExt == << ".", "p", "y" >>

NbExt == << ".", "i", "p", "y", "n", "b" >>

HasExtension(name) == EndsWith(name, PyExt) \/ EndsWith(name, NbExt)

\* A walk that prunes nothing
AllDirNames(t, d) == DirNames(t, d)

\* dirnames[:] = [d for d in dirnames if not d.startswith('.')]
KeptDirNames(t, d) == {n \in DirNames(t, d) : ~StartsWith(n, << "." >>)}

\* The subdirectories os.walk goes on into: followlinks is False, so a link is
\* listed among dirnames but not entered.
WalkedDirs(t, d) == {n \in KeptDirNames(t, d) : t[Join(d, n)] # "ldir"}

\* A walk that lists what a failing listing hides
RECURSIVE WalkAll(_, _)
WalkAll(t, top) ==
    LET here == SelectSeq(Sorted(FileNames(t, top)), HasExtension)
        subs == Sorted(WalkedDirs(t, top))
    IN  [k \in 1..Len(here) |-> Join(top, here[k])]
        \o Flatten([k \in 1..Len(subs) |-> WalkAll(t, Join(top, subs[k]))])

\* find_files: os.walk(root_dir) top down.  A directory whose listing fails
\* contributes nothing (os.walk is called without onerror, which ignores the
\* error); the listing order of a directory is taken to be name order.
RECURSIVE Walk(_, _)
Walk(t, top) ==
    IF t[top] = "xdir" THEN << >>
    ELSE LET here == SelectSeq(Sorted(FileNames(t, top)), HasExtension)
             subs == Sorted(WalkedDirs(t, top))
         IN  [k \in 1..Len(here) |-> Join(top, here[k])]
             \o Flatten([k \in 1..Len(subs) |-> Walk(t, Join(top, subs[k]))])

find_files(t, root_dir) == Walk(t, root_dir)

(***************************************************************************)
(* Source text.  A text is a sequence of tokens; a token is a keyword or   *)
(* punctuation mark (k) or an identifier, possibly dotted (k = "id", v the *)
(* spelling).  "NL" is a line end.                                         *)
(***************************************************************************)

KW(k) == [k |-> k, v |-> << >>]

ID(s) == [k |-> "id", v |-> s]

NL == KW("NL")

\* str.join(sep, parts) for a one-token separator
RECURSIVE JoinWith(_, _)
JoinWith(sep, parts) ==
    IF parts = << >> THEN << >>
    ELSE IF Len(parts) = 1 THEN parts[1]
    ELSE parts[1] \o << sep >> \o JoinWith(sep, Tail(parts))

\* The logical lines of a text
LineEnds(toks) == {k \in 1..Len(toks) : toks[k] = NL}

Least(S) == CHOOSE k \in S : \A j \in S : k <= j

RECURSIVE SplitLines(_)
SplitAt(toks, e) == << SubSeq(toks, 1, e - 1) >> \o SplitLines(SubSeq(toks, e + 1, Len(toks)))

SplitLines(toks) ==
    IF LineEnds(toks) = {} THEN << toks >> ELSE SplitAt(toks, Least(LineEnds(toks)))

\* A syntax tree node.  module = << >> stands for None.  The names of an
\* ImportFrom node are left out: no line of the program reads them.
Node(type, names, module, level, body) ==
    [type |-> type, names |-> names, module |-> module, level |-> level, body |-> body]

BadNode == Node("Bad", << >>, << >>, 0, << >>)

Undotted(s) == \A c \in 1..Len(s) : s[c] # "."

\* What follows NAME in a list of aliases: the tokens after an 'as' NAME, if any
AfterAlias(toks) ==
    IF Len(toks) >= 3 /\ toks[2].k = "as" /\ toks[3].k = "id" /\ Undotted(toks[3].v)
    THEN SubSeq(toks, 4, Len(toks))
    ELSE Tail(toks)

Prepend(name, more) == IF more = << >> THEN << >> ELSE << name >> \o more

\* dotted_as_names: NAME ['as' NAME] (',' NAME ['as' NAME])*.  The names, in
\* order; << >> when the tokens are no such list.
RECURSIVE ParseAliases(_)
AliasesFrom(name, rest) ==
    IF rest = << >> THEN << name >>
    ELSE IF rest[1].k # "," THEN << >>
    ELSE Prepend(name, ParseAliases(Tail(rest)))

ParseAliases(toks) ==
    IF toks = << >> \/ toks[1].k # "id" THEN << >>
    ELSE AliasesFrom(toks[1].v, AfterAlias(toks))

\* The number of leading dots of a from-import's module
RECURSIVE LeadingDots(_)
LeadingDots(toks) ==
    IF toks # << >> /\ toks[1].k = "." THEN 1 + LeadingDots(Tail(toks)) ELSE 0

\* ('*' | import_as_names)
ImportTargets(what) ==
    \/ what = << KW("*") >>
    \/ /\ ParseAliases(what) # << >>
       /\ \A n \in 1..Len(what) : Undotted(what[n].v)

\* 'import' targets, after the module of a from-import
FromImport(level, module, toks) ==
    IF /\ level + Len(module) > 0
       /\ toks # << >>
       /\ toks[1].k = "import"
       /\ ImportTargets(Tail(toks))
    THEN Node("ImportFrom", << >>, module, level, << >>)
    ELSE BadNode

\* The module of a from-import, after its leading dots
FromModule(level, toks) ==
    IF toks # << >> /\ toks[1].k = "id"
    THEN FromImport(level, toks[1].v, Tail(toks))
    ELSE FromImport(level, << >>, toks)

FromDots(level, toks) == FromModule(level, SubSeq(toks, level + 1, Len(toks)))

\* 'from' ('.'* dotted_name | '.'+) 'import' ('*' | import_as_names)
ParseFrom(toks) == FromDots(LeadingDots(toks), toks)

ImportNode(names) ==
    IF names = << >> THEN BadNode ELSE Node("Import", names, << >>, 0, << >>)

\* A simple statement on one line
ParseSimple(line) ==
    IF line = << >> THEN BadNode
    ELSE IF line = << KW("pass") >> THEN Node("Pass", << >>, << >>, 0, << >>)
    ELSE IF line[1].k = "import" THEN ImportNode(ParseAliases(Tail(line)))
    ELSE IF line[1].k = "from" THEN ParseFrom(Tail(line))
    ELSE BadNode

IfNode(inner) ==
    IF inner.type = "Bad" THEN BadNode ELSE Node("If", << >>, << >>, 0, << inner >>)

\* The line with a leading 'if' NAME ':' taken off, and whether it had one
IsIf(line) == Len(line) >= 4 /\ line[1].k = "if" /\ line[2].k = "id" /\ line[3].k = ":"

Suite(line) == IF IsIf(line) THEN SubSeq(line, 4, Len(line)) ELSE line

Wrap(line, inner) == IF IsIf(line) THEN IfNode(inner) ELSE inner

\* A statement: a simple statement, or 'if' NAME ':' simple statement
ParseStmt(line) == Wrap(line, ParseSimple(Suite(line)))

ParseLines(lines) == [k \in 1..Len(lines) |-> ParseStmt(lines[k])]

NotBlank(line) == line # << >>

ModuleOf(stmts) ==
    IF \E k \in 1..Len(stmts) : stmts[k].type = "Bad"
    THEN [ok |-> FALSE, body |-> << >>]
    ELSE [ok |-> TRUE, body |-> stmts]

\* ast.parse: the statements of the module body, blank lines dropped; fails
\* when a line is no statement.
AstParse(code) == ModuleOf(ParseLines(SelectSeq(SplitLines(code), NotBlank)))

\* ast.walk(tree), the statement nodes of it: each statement and the
\* statements nested in it.
RECURSIVE AstWalk(_)
AstWalk(body) ==
    IF body = << >> THEN << >>
    ELSE << Head(body) >> \o AstWalk(Head(body).body) \o AstWalk(Tail(body))

\* A safe_parse whose except clause does not catch the SyntaxError
Uncaught(r) ==
    IF r.ok THEN [status |-> "tree", body |-> r.body]
    ELSE [status |-> "raise", body |-> << >>]

\* The try of safe_parse: what ast.parse did becomes the tree, or None
Caught(r) ==
    IF r.ok THEN [status |-> "tree", body |-> r.body]
    ELSE [status |-> "none", body |-> << >>]

\* safe_parse: the tree, or None when ast.parse raises SyntaxError.
\*   status "tree": a tree is returned; "none": None is returned;
\*   "raise": the SyntaxError leaves safe_parse.
safe_parse(code) == Caught(AstParse(code))

(***************************************************************************)
(* The extractors.  A file's content is a record                           *)
(*   utf8   whether the bytes decode as UTF-8                              *)
(*   text   the content read as source text                                *)
(*   json   the content read as a JSON document:                           *)
(*            kind      "empty", "garbage" (json.load raises), "object",   *)
(*                      or "array" (a document that is no object)          *)
(*            hasCells  whether the object has the key "cells"             *)
(*            cells     its cells, each with hasType, cell_type,           *)
(*                      hasSource, source (a list of text fragments)       *)
(* An extractor's outcome is [exc, val]: exc = "" and the returned set, or *)
(* the name of the exception that leaves it.                               *)
(***************************************************************************)

Returned(S) == [exc |-> "", val |-> S]

Raised(e) == [exc |-> e, val |-> {}]

\* Line 48, over the nodes ast.walk yields: the first listed module of every
\* Import node
PyImportNames(nodes) ==
    {FirstSegment(nodes[k].names[1]) : k \in {j \in 1..Len(nodes) : nodes[j].type = "Import"}}

\* Line 49: the module of every ImportFrom node that has one
PyFromNames(nodes) ==
    {FirstSegment(nodes[k].module) :
        k \in {j \in 1..Len(nodes) : nodes[j].type = "ImportFrom" /\ nodes[j].module # << >>}}

PyImports(nodes) == PyImportNames(nodes) \union PyFromNames(nodes)

\* Lines 45-51, given what safe_parse did
PyResult(tree) ==
    IF tree.status = "raise" THEN Raised("SyntaxError")
    ELSE IF tree.status = "none" THEN Returned({})
    ELSE Returned(PyImports(AstWalk(tree.body)))

\* Lines 44-51: the analysis of a source text
AnalysePy(code) == PyResult(safe_parse(code))

\* Lines 32-42: read as UTF-8, else as latin-1, which decodes any bytes
ReadText(content) == content.text

extract_imports_from_py(content) == AnalysePy(ReadText(content))

\* json.load of lines 57-62: whether it returns the document; if not, the
\* failure is caught (UnicodeDecodeError is a ValueError)
JsonLoads(content) == content.utf8 /\ content.json.kind \in {"object", "array"}

\* A line 65 without its filter
AnyCell(cell) == TRUE

\* The cells line 65 keeps
IsCodeCell(cell) == cell.cell_type = "code"

Blobs(kept) == [k \in 1..Len(kept) |-> Flatten(kept[k].source)]

\* Line 65: one blob per code cell
CodeCells(cells) == Blobs(SelectSeq(cells, IsCodeCell))

\* Line 66
JoinCells(code_cells) == JoinWith(NL, code_cells)

\* The exception line 65 raises on a document, "" when it raises none:
\* nb["cells"], then for each cell cell["cell_type"] and, for a code cell,
\* cell["source"].
CellsError(nb) ==
    IF nb.kind # "object" THEN "TypeError"
    ELSE IF ~nb.hasCells THEN "KeyError"
    ELSE IF \E k \in 1..Len(nb.cells) :
               \/ ~nb.cells[k].hasType
               \/ IsCodeCell(nb.cells[k]) /\ ~nb.cells[k].hasSource
         THEN "KeyError"
    ELSE ""

\* Line 72
NbImportNames(nodes) ==
    {FirstSegment(nodes[k].names[1]) : k \in {j \in 1..Len(nodes) : nodes[j].type = "Import"}}

\* Line 73
NbFromNames(nodes) ==
    {FirstSegment(nodes[k].module) :
        k \in {j \in 1..Len(nodes) : nodes[j].type = "ImportFrom" /\ nodes[j].module # << >>}}

NbImports(nodes) == NbImportNames(nodes) \union NbFromNames(nodes)

\* Lines 69-75, given what safe_parse did
NbResult(tree) ==
    IF tree.status = "raise" THEN Raised("SyntaxError")
    ELSE IF tree.status = "none" THEN Returned({})
    ELSE Returned(NbImports(AstWalk(tree.body)))

\* Lines 65-75, given the document and the exception line 65 raises on it
NbAnalyse(nb, err) ==
    IF err # "" THEN Raised(err)
    ELSE NbResult(safe_parse(JoinCells(CodeCells(nb.cells))))

extract_imports_from_ipynb(content) ==
    IF ~JsonLoads(content) THEN Returned({})
    ELSE NbAnalyse(content.json, CellsError(content.json))

(***************************************************************************)
(* The requirements file                                                   *)
(***************************************************************************)

\* Line 105: the dict built from the working set, key -> version
InstalledPackages(ws) == [k \in DOMAIN ws |-> ws[k]]

\* installed_packages.get(dep.lower(), "")
VersionOf(installed, dep) ==
    IF Lower(dep) \in DOMAIN installed THEN installed[Lower(dep)] ELSE << >>

\* f"{dep}=={version}"
Requirement(dep, version) == dep \o << "=", "=" >> \o version

\* An order that is not sorted(): the descending one
RECURSIVE Descending(_)
Descending(S) ==
    IF S = {} THEN << >>
    ELSE LET m == CHOOSE x \in S : \A y \in S \ {x} : StrLess(y, x)
         IN  << m >> \o Descending(S \ {m})

\* The order line 109 writes in
WriteOrder(deps) == Sorted(deps)

\* Lines 109-112 without the test of line 111
ManifestLinesUnfiltered(deps, installed) ==
    LET order == WriteOrder(deps)
    IN  [k \in 1..Len(order) |-> Requirement(order[k], VersionOf(installed, order[k]))]

\* Lines 109-112: the lines written, in order
ManifestLines(deps, installed) ==
    LET order == WriteOrder(deps)
        kept == SelectSeq(order, LAMBDA d : VersionOf(installed, d) # << >>)
    IN  [k \in 1..Len(kept) |-> Requirement(kept[k], VersionOf(installed, kept[k]))]

(***************************************************************************)
(* get_dependencies                                                        *)
(***************************************************************************)

VARIABLES
    fs,                \* the file system: path -> kind
    data,              \* the content of each file
    working_set,       \* pkg_resources.working_set: key -> version
    paths,             \* the paths argument
    before,            \* the output file before the run
    outfile,           \* the output file: [exists, lines]
    opens,             \* how many times the output path was opened for writing
    pc,                \* where get_dependencies is
    i,                 \* the position of the running for loop
    files_to_process,
    dependencies,
    ret,               \* what the last extractor call returned
    exc                \* the exception that ended the run, "" when none

env == << fs, data, working_set, paths, before >>

vars == << fs, data, working_set, paths, before, outfile, opens, pc, i,
           files_to_process, dependencies, ret, exc >>

\* What one path of lines 83-90 adds to the queue
Queued(t, path) ==
    IF IsDir(t, path) THEN find_files(t, path)
    ELSE IF IsFile(t, path) /\ (EndsWith(path, PyExt) \/ EndsWith(path, NbExt))
         THEN << path >>
    ELSE << >>

\* Lines 83-90, one path
Resolve ==
    /\ pc = "paths"
    /\ files_to_process' = files_to_process \o Queued(fs, paths[i])
    /\ IF i = Len(paths) THEN pc' = "check" /\ i' = 1
                         ELSE pc' = "paths" /\ i' = i + 1
    /\ UNCHANGED << env, outfile, opens, dependencies, ret, exc >>

\* A run that lacks the early return of line 94
AfterCheckNoReturn(files) == IF files = << >> THEN "write" ELSE "files"

\* Lines 92-94: where the run goes with the queue it has, "exit" being the return
AfterCheck(files) == IF files = << >> THEN "exit" ELSE "files"

\* Lines 92-94
Check ==
    /\ pc = "check"
    /\ pc' = AfterCheck(files_to_process)
    /\ UNCHANGED << env, outfile, opens, i, files_to_process, dependencies, ret, exc >>

\* Lines 97-100: the extractor the file's extension selects
Dispatch(file, content) ==
    IF EndsWith(file, PyExt) THEN extract_imports_from_py(content)
    ELSE IF EndsWith(file, NbExt) THEN extract_imports_from_ipynb(content)
    ELSE Returned({})

\* Lines 96-100, one file
Extract ==
    /\ pc = "files"
    /\ LET r == Dispatch(files_to_process[i], data[files_to_process[i]])
       IN  IF r.exc # ""
           THEN /\ pc' = "raised"
                /\ exc' = r.exc
                /\ UNCHANGED << i, dependencies, ret >>
           ELSE /\ dependencies' = dependencies \union r.val
                /\ ret' = r.val
                /\ i' = i + 1
                /\ pc' = IF i = Len(files_to_process) THEN "write" ELSE "files"
                /\ exc' = exc
    /\ UNCHANGED << env, outfile, opens, files_to_process >>

\* Lines 105-114
Write ==
    /\ pc = "write"
    /\ outfile' = [exists |-> TRUE,
                   lines |-> ManifestLines(dependencies, InstalledPackages(working_set))]
    /\ opens' = opens + 1
    /\ pc' = "done"
    /\ UNCHANGED << env, i, files_to_process, dependencies, ret, exc >>

Next == Resolve \/ Check \/ Extract \/ Write

\* The state get_dependencies starts in
Start ==
    /\ outfile = before
    /\ opens = 0
    /\ pc = "paths"
    /\ i = 1
    /\ files_to_process = << >>
    /\ dependencies = {}
    /\ ret = {}
    /\ exc = ""

(***************************************************************************)
(* Inputs                                                                  *)
(***************************************************************************)

MaxPaths == 2      \* the longest paths argument
MaxLines == 2      \* the most lines of a generated source text
MaxCells == 2      \* the most cells of a generated notebook

\* Sequences over S of length lo..hi
SeqsOf(S, lo, hi) == UNION {[1..n -> S] : n \in lo..hi}

Empty == [x \in {} |-> x]

NoJson == [kind |-> "garbage", hasCells |-> FALSE, cells |-> << >>]

Source(text) == [utf8 |-> TRUE, text |-> text, json |-> NoJson]

Cell(type, source) ==
    [hasType |-> TRUE, cell_type |-> type, hasSource |-> TRUE, source |-> source]

Notebook(cells) ==
    [utf8 |-> TRUE, text |-> << >>,
     json |-> [kind |-> "object", hasCells |-> TRUE, cells |-> cells]]

NotJson(kind) ==
    [utf8 |-> TRUE, text |-> << >>,
     json |-> [kind |-> kind, hasCells |-> FALSE, cells |-> << >>]]

\* Source lines
L_import_a == << KW("import"), ID(<< "a" >>) >>
L_import_Ab == << KW("import"), ID(<< "A", ".", "b" >>) >>
L_import_ab_B == << KW("import"), ID(<< "a", ".", "b" >>), KW(","), ID(<< "B" >>) >>
L_import_b_as_c == << KW("import"), ID(<< "b" >>), KW("as"), ID(<< "c" >>) >>
L_from_ac == << KW("from"), ID(<< "a", ".", "c" >>), KW("import"), ID(<< "x" >>) >>
L_from_dot == << KW("from"), KW("."), KW("import"), ID(<< "x" >>) >>
L_from_dot_d == << KW("from"), KW("."), ID(<< "d" >>), KW("import"), ID(<< "x" >>) >>
L_from_b_star == << KW("from"), ID(<< "b" >>), KW("import"), KW("*") >>
L_pass == << KW("pass") >>
L_if_import == << KW("if"), ID(<< "x" >>), KW(":"), KW("import"), ID(<< "c", ".", "d" >>) >>
L_bad_import == << KW("import") >>
L_bad_from == << KW("from"), KW("import"), ID(<< "x" >>) >>

LinePool ==
    { L_import_a, L_import_ab_B, L_import_b_as_c, L_from_ac, L_from_dot,
      L_from_dot_d, L_from_b_star, L_pass, L_if_import, L_bad_import, L_bad_from }

\* Source texts of up to MaxLines lines
TextPool == {JoinWith(NL, ls) : ls \in SeqsOf(LinePool, 0, MaxLines)}

\* Cell sources: lists of fragments
SourcePool ==
    { << >>,
      << L_import_a \o << NL >>, L_import_Ab >>,
      << << KW("from") >>, << ID(<< "d" >>), KW("import"), ID(<< "x" >>) >> >>,
      << L_bad_import >>,
      << L_import_ab_B >> }

CellPool == {Cell(t, src) : t \in {"code", "markdown", "raw"}, src \in SourcePool}

\* Well-formed notebooks of up to MaxCells cells
NotebookPool == {Notebook(cells) : cells \in SeqsOf(CellPool, 0, MaxCells)}

\* Paths
P_r == << "r" >>
P_r_a == << "r", "/", "a", ".", "p", "y" >>
P_r_n == << "r", "/", "n", ".", "i", "p", "y", "n", "b" >>
P_r_t == << "r", "/", "t", ".", "t", "x", "t" >>
P_r_g == << "r", "/", ".", "g" >>
P_r_g_b == << "r", "/", ".", "g", "/", "b", ".", "p", "y" >>
P_u == << "u" >>
P_u_c == << "u", "/", "c", ".", "p", "y" >>
P_m == << "m", ".", "p", "y" >>
P_k == << "k", ".", "i", "p", "y", "n", "b" >>
P_t == << "t", ".", "t", "x", "t" >>
P_z == << "z", ".", "p", "y" >>

\* The file system of the runs of Spec: a directory r with a hidden
\* subdirectory, a directory u that cannot be listed, and three files.
MainFs ==
    (P_r :> "dir") @@ (P_r_a :> "file") @@ (P_r_n :> "file") @@ (P_r_t :> "file")
    @@ (P_r_g :> "dir") @@ (P_r_g_b :> "file")
    @@ (P_u :> "xdir") @@ (P_u_c :> "file")
    @@ (P_m :> "file") @@ (P_k :> "file") @@ (P_t :> "file")

\* The paths a run may be given; z.py does not exist
PathArgs == {P_r, P_u, P_m, P_k, P_t, P_z}

\* What each file of MainFs may hold
MainContents(path) ==
    IF path = P_r_a THEN {Source(L_import_Ab), Source(L_bad_import)}
    ELSE IF path = P_r_n
         THEN { Notebook(<< Cell("code", << L_from_dot_d \o << NL >>, L_import_b_as_c >>),
                            Cell("markdown", << L_bad_from >>) >>),
                NotJson("garbage"),
                [NotJson("object") EXCEPT !.utf8 = FALSE],
                NotJson("object") }
    ELSE IF path = P_m
         THEN { Source(L_import_ab_B \o << NL >> \o L_from_ac),
                [Source(L_if_import) EXCEPT !.utf8 = FALSE],
                Source(L_bad_from) }
    ELSE IF path = P_k
         THEN { Notebook(<< Cell("code", << L_import_a >>), Cell("code", << L_bad_import >>) >>),
                NotJson("empty"),
                Notebook(<< [Cell("code", << >>) EXCEPT !.hasSource = FALSE] >>) }
    ELSE IF path = P_r_g_b THEN {Source(<< KW("import"), ID(<< "z" >>) >>)}
    ELSE IF path = P_u_c THEN {Source(<< KW("import"), ID(<< "u" >>) >>)}
    ELSE {Source(<< >>)}

FilesOf(t) == {p \in DOMAIN t : t[p] = "file"}

\* Every assignment of contents to the files of MainFs
MainData ==
    { (P_r_a :> ca) @@ (P_r_n :> cn) @@ (P_m :> cm) @@ (P_k :> ck)
      @@ [p \in FilesOf(MainFs) |-> CHOOSE c \in MainContents(p) : TRUE] :
        ca \in MainContents(P_r_a), cn \in MainContents(P_r_n),
        cm \in MainContents(P_m), ck \in MainContents(P_k) }

\* Snapshots of the installed packages: keys are lower case
WorkingSets ==
    { Empty,
      (<< "a" >> :> << "1" >>) @@ (<< "b" >> :> << "2", ".", "1" >>),
      (<< "a" >> :> << "2" >>) @@ (<< "c" >> :> << "1" >>) @@ (<< "d" >> :> << >>) @@ (<< "z" >> :> << "1" >>) @@ (<< "u" >> :> << "1" >>) }

\* The output file before a run
Befores == { [exists |-> FALSE, lines |-> << >>],
             [exists |-> TRUE, lines |-> << << "x", "=", "=", "1" >> >>] }

Init ==
    /\ fs = MainFs
    /\ data \in MainData
    /\ working_set \in WorkingSets
    /\ paths \in SeqsOf(PathArgs, 1, MaxPaths)
    /\ before \in Befores
    /\ Start

Spec == Init /\ [][Next]_vars

(***************************************************************************)
(* Runs on one source file holding any text of TextPool                    *)
(***************************************************************************)

InitPy ==
    /\ fs = (P_m :> "file")
    /\ \E t \in TextPool, u \in BOOLEAN :
          data = (P_m :> [Source(t) EXCEPT !.utf8 = u])
    /\ working_set = Empty
    /\ paths = << P_m >>
    /\ before = [exists |-> FALSE, lines |-> << >>]
    /\ Start

SpecPy == InitPy /\ [][Next]_vars

(***************************************************************************)
(* Runs on one well-formed notebook of NotebookPool                        *)
(***************************************************************************)

InitNb ==
    /\ fs = (P_k :> "file")
    /\ \E nb \in NotebookPool : data = (P_k :> nb)
    /\ working_set = Empty
    /\ paths = << P_k >>
    /\ before = [exists |-> FALSE, lines |-> << >>]
    /\ Start

SpecNb == InitNb /\ [][Next]_vars

(***************************************************************************)
(* Runs on one directory tree                                              *)
(***************************************************************************)

\* Nothing, or the path p with one of the kinds
Opt(p, kinds) == {Empty} \union {p :> k : k \in kinds}

\* A hidden directory p with a source file in it, or nothing
HiddenTrees(p) ==
    {Empty} \union {(p :> "dir") @@ f : f \in Opt(Join(p, << "b", ".", "p", "y" >>), {"file"})}

\* A directory p of any kind with a notebook and a hidden directory in it, or nothing
SubTrees(p) ==
    {Empty} \union
    { (p :> k) @@ n @@ h :
        k \in DirKinds, n \in Opt(Join(p, << "n", ".", "i", "p", "y", "n", "b" >>), {"file"}),
        h \in HiddenTrees(Join(p, << ".", "h" >>)) }

\* The trees under a root: the root of any kind, and in it a source file, a
\* text file, an entry named e.py that is a file or a directory, a
\* subdirectory d and a hidden subdirectory .g
TreesUnder(root) ==
    { (root :> rk) @@ a @@ t @@ e @@ d @@ g :
        rk \in DirKinds,
        a \in Opt(Join(root, << "a", ".", "p", "y" >>), {"file"}),
        t \in Opt(Join(root, << "t", ".", "t", "x", "t" >>), {"file"}),
        e \in Opt(Join(root, << "e", ".", "p", "y" >>), {"file", "dir"}),
        d \in SubTrees(Join(root, << "d" >>)),
        g \in HiddenTrees(Join(root, << ".", "g" >>)) }

\* The roots: one plainly named, and two whose name begins with a dot
Roots == { << "r" >>, << ".", "r" >>, << "." >> }

InitFind ==
    /\ \E root \in Roots :
          /\ fs \in TreesUnder(root)
          /\ paths = << root >>
    /\ data = [p \in FilesOf(fs) |->
                  IF EndsWith(p, NbExt) THEN Notebook(<< >>) ELSE Source(<< >>)]
    /\ working_set = Empty
    /\ before = [exists |-> FALSE, lines |-> << >>]
    /\ Start

SpecFind == InitFind /\ [][Next]_vars

(***************************************************************************)
(* Properties                                                              *)
(***************************************************************************)

\* The name and the version of a line name==version
EqSigns(line) == {k \in 1..Len(line) : line[k] = "="}

NameOfLine(line) ==
    IF EqSigns(line) = {} THEN line ELSE SubSeq(line, 1, Least(EqSigns(line)) - 1)

VersionOfLine(line) ==
    IF EqSigns(line) = {} THEN << >> ELSE SubSeq(line, Least(EqSigns(line)) + 2, Len(line))

Written == pc = "done"

Lines == outfile.lines

\* The file the last Extract step handled
Processed == pc \in {"files", "write", "done"} /\ i > 1

LastFile == files_to_process[i - 1]

\* C1: every line of a written manifest is name==version for a name of the
\* unioned set, in its original case, whose lower-cased form is a key of the
\* index, with that key's non-empty version; a name whose lower-cased form
\* is no key has no line, and no line has a blank version.
C1_ManifestFromIndex ==
    Written =>
        /\ \A k \in 1..Len(Lines) :
              /\ NameOfLine(Lines[k]) \in dependencies
              /\ Lower(NameOfLine(Lines[k])) \in DOMAIN working_set
              /\ VersionOfLine(Lines[k]) = working_set[Lower(NameOfLine(Lines[k]))]
              /\ VersionOfLine(Lines[k]) # << >>
              /\ Lines[k] = NameOfLine(Lines[k]) \o << "=", "=" >> \o VersionOfLine(Lines[k])
        /\ \A d \in dependencies :
              Lower(d) \notin DOMAIN working_set =>
                  \A k \in 1..Len(Lines) : NameOfLine(Lines[k]) # d

\* A manifest with a line for a name in upper case, and names left out
\* because they are no key and because their version is blank
C1_Witness ==
    /\ Written
    /\ \E k \in 1..Len(Lines) : Lower(NameOfLine(Lines[k])) # NameOfLine(Lines[k])
    /\ \E d \in dependencies : Lower(d) \notin DOMAIN working_set
    /\ \E d \in dependencies : Lower(d) \in DOMAIN working_set /\ working_set[Lower(d)] = << >>

\* C2: the lines of a written manifest are in strictly ascending order by
\* name, so no name has two lines, whatever the order of the queue and
\* however many queued files import the name.
C2_StrictlyAscending ==
    Written =>
        \A j, k \in 1..Len(Lines) :
            j < k => StrLess(NameOfLine(Lines[j]), NameOfLine(Lines[k]))

\* A manifest of several lines from a queue that holds a file twice
C2_Witness ==
    /\ Written
    /\ Len(Lines) >= 2
    /\ \E j, k \in 1..Len(files_to_process) :
          j < k /\ files_to_process[j] = files_to_process[k]

\* C3: once every path is resolved with nothing queued, the run returns
\* without opening the output path: the output file is as it was.
C3_NoWriteWhenEmpty ==
    (pc \notin {"paths", "check"} /\ files_to_process = << >>) =>
        (pc = "exit" /\ opens = 0 /\ outfile = before)

\* An early return that leaves an existing output file, after two paths
C3_Witness ==
    /\ pc = "exit"
    /\ before.exists
    /\ Len(paths) >= 2
    /\ \E k \in 1..Len(paths) : IsDir(fs, paths[k])

\* The set C4 describes: the first segment of every module of every import
\* statement, and of the module of every from-import that names one
C4_Names(nodes) ==
    UNION {{FirstSegment(nodes[k].names[n]) : n \in 1..Len(nodes[k].names)} :
              k \in {j \in 1..Len(nodes) : nodes[j].type = "Import"}}
    \union {FirstSegment(nodes[k].module) :
              k \in {j \in 1..Len(nodes) : nodes[j].type = "ImportFrom" /\ nodes[j].module # << >>}}

\* C4: on a valid source text extract_imports_from_py returns exactly the
\* first segments of all the modules its import statements name, each
\* module of a statement that names several included, and of the modules
\* its from-imports name.
C4_AllImportedModules ==
    (Processed /\ AstParse(data[LastFile].text).ok) =>
        ret = C4_Names(AstWalk(AstParse(data[LastFile].text).body))

\* The text C5 describes: the fragments of each code cell concatenated, the
\* blobs joined with line ends, in cell order
RECURSIVE C5_Blobs(_)
C5_Blobs(cells) ==
    IF cells = << >> THEN << >>
    ELSE IF Head(cells).cell_type = "code"
         THEN << Flatten(Head(cells).source) >> \o C5_Blobs(Tail(cells))
    ELSE C5_Blobs(Tail(cells))

C5_Text(cells) == JoinWith(NL, C5_Blobs(cells))

\* C5: on a well-formed notebook extract_imports_from_ipynb returns what the
\* source analysis returns on the joined text of the code cells; no other
\* cell contributes, and nothing is raised.
C5_NotebookAsSource ==
    /\ pc # "raised"
    /\ Processed => ret = AnalysePy(C5_Text(data[LastFile].json.cells)).val

\* A notebook with a code cell that imports and a cell of another type
\* whose text is no valid source
C5_Witness ==
    /\ Processed
    /\ ret # {}
    /\ \E k \in 1..Len(data[LastFile].json.cells) :
          /\ data[LastFile].json.cells[k].cell_type # "code"
          /\ ~AstParse(Flatten(data[LastFile].json.cells[k].source)).ok

\* The directories between the root and a path beneath it, the root included
Above(root, p) ==
    {q \in DOMAIN fs : StartsWith(q, root) /\ StartsWith(p, q \o << "/" >>)}

Recognized(p) == fs[p] = "file" /\ HasExtension(Basename(p))

Hidden(q) == StartsWith(Basename(q), << "." >>)

NoDuplicates(seq) == \A j, k \in 1..Len(seq) : seq[j] = seq[k] => j = k

Range(seq) == {seq[k] : k \in 1..Len(seq)}

\* The files C6 describes: the recognized files beneath the root outside
\* every subtree of a directory, below the root, named with a leading dot
C6_Expected(root) ==
    {p \in DOMAIN fs :
        /\ Recognized(p)
        /\ Above(root, p) # {}
        /\ \A q \in Above(root, p) \ {root} : ~Hidden(q)}

\* C6 as stated: find_files returns exactly one entry for each recognized
\* file beneath the root that is in no hidden subtree.
C6_EveryRecognizedFile ==
    pc # "paths" =>
        /\ NoDuplicates(files_to_process)
        /\ Range(files_to_process) = C6_Expected(paths[1])

\* The files find_files reaches: those of C6_Expected whose directories,
\* from the root down, can all be listed and, below the root, are no links
C6_Reached(root) ==
    {p \in C6_Expected(root) :
        /\ fs[root] # "xdir"
        /\ \A q \in Above(root, p) \ {root} : fs[q] = "dir"}

\* C6, amended: exactly one entry for each recognized file beneath the root
\* that is reached through directories that can be listed and are not
\* symbolic links, outside every hidden subtree below the root.
C6_EveryReachedFile ==
    pc # "paths" =>
        /\ NoDuplicates(files_to_process)
        /\ Range(files_to_process) = C6_Reached(paths[1])
        /\ Len(files_to_process) = Cardinality(C6_Reached(paths[1]))

\* A root named with a leading dot, walked, with a recognized file in a
\* hidden subdirectory, one in a plain subdirectory, and a text file
C6_Witness ==
    /\ pc = "check"
    /\ Hidden(paths[1])
    /\ Len(files_to_process) >= 2
    /\ \E p \in DOMAIN fs :
          Recognized(p) /\ \E q \in Above(paths[1], p) \ {paths[1]} : Hidden(q)
    /\ \E p \in Range(files_to_process) : Above(paths[1], p) # {paths[1]}
    /\ \E p \in DOMAIN fs : fs[p] = "file" /\ ~HasExtension(Basename(p))

\* The notebooks C7 is about: an empty file, text that is no JSON, or a
\* document that lacks the cell list or has a cell without type or source
Malformed(content) ==
    \/ content.json.kind \in {"empty", "garbage"}
    \/ ~content.json.hasCells
    \/ \E k \in 1..Len(content.json.cells) :
          ~content.json.cells[k].hasType \/ ~content.json.cells[k].hasSource

\* C7: a malformed or empty notebook yields the empty set, nothing is
\* raised, and the run goes on to the other files and the manifest.
C7_MalformedNotebookSkipped ==
    \A k \in 1..Len(files_to_process) :
        (EndsWith(files_to_process[k], NbExt) /\ Malformed(data[files_to_process[k]])) =>
            /\ extract_imports_from_ipynb(data[files_to_process[k]]) = Returned({})
            /\ pc # "raised"

\* Whether the body of a file fails the syntactic parse
SyntaxFails(file) ==
    IF EndsWith(file, PyExt) THEN ~AstParse(data[file].text).ok
    ELSE /\ JsonLoads(data[file])
         /\ CellsError(data[file].json) = ""
         /\ ~AstParse(C5_Text(data[file].json.cells)).ok

\* C8: the step that handles a file whose body fails the parse returns the
\* empty set, raises nothing, leaves the accumulated names as they were, and
\* goes on to the next queued file (to the writing when it was the last).
C8_SyntaxErrorSkipped ==
    [][(pc = "files" /\ SyntaxFails(files_to_process[i])) =>
          /\ exc' = ""
          /\ ret' = {}
          /\ dependencies' = dependencies
          /\ i' = i + 1
          /\ pc' = IF i < Len(files_to_process) THEN "files" ELSE "write"]_vars

\* A finished run whose queue held a notebook with a code cell that fails
\* the parse, before a file that was still handled, and that found names
C8_Witness ==
    /\ Written
    /\ dependencies # {}
    /\ \E k \in 1..(Len(files_to_process) - 1) :
          /\ EndsWith(files_to_process[k], NbExt)
          /\ SyntaxFails(files_to_process[k])

\* The paths resolved so far
Resolved == IF pc = "paths" THEN 1..(i - 1) ELSE 1..Len(paths)

Unreadable(path) == IsDir(fs, path) /\ fs[path] = "xdir"

C10_WrittenOnce ==
    /\ pc \notin {"done"} => (opens = 0 /\ outfile = before)
    /\ (files_to_process # << >> /\ pc \in {"done", "raised"}) => opens = 1

====
